---- MODULE Spec2Model ----
(***************************************************************************)
(* Entitlement and quota subsystem of the SumVid Learn backend.            *)
(*                                                                         *)
(* The users table, the daily usage counter (config/usage.js) and the      *)
(* Stripe webhook endpoint (routes/webhooks.js) as a state machine.  Every *)
(* `await query(...)` of the source is one atomic step of the request that *)
(* issues it; requests of different processes interleave between steps.    *)
(***************************************************************************)
EXTENDS Integers, Sequences, FiniteSets, TLC

(***************************************************************************)
(* Bounds of the model.                                                    *)
(***************************************************************************)
MaxDay == 2
MaxIncCalls == 12
MaxUsed == 12
MaxRecorded == 3
MixedMaxUsed == 2

(***************************************************************************)
(* Program constants.                                                      *)
(***************************************************************************)
BASE_LIMIT == 10
UNLIMITED_SENTINEL == 999999
FALLBACK_LIMIT == 10
LEDGER_CAPACITY == 1000
LEDGER_KEEP == 500

\* Two request handlers can be in flight at once.
Procs == {"p1", "p2"}
\* Rows of the users table: ids 1 and 2 exist, id 3 never does.
UserIds == {1, 2}
MissingUserId == 3
NULL == 0

VARIABLES
  users,            \* the users table: user id -> row
  today,            \* the current UTC date (CURRENT_DATE)
  processedEvents,  \* webhooks.js' Set of processed event ids, in insertion order
  stripeCustomers,  \* the provider's customers: customer id -> email
  req,              \* the request each process is handling, and where it is
  ghost             \* history kept for the properties only

vars == <<users, today, processedEvents, stripeCustomers, req, ghost>>

(***************************************************************************)
(* The users table (migrate.js): a new row carries the column defaults.    *)
(***************************************************************************)
Emails == [u \in UserIds |-> IF u = 1 THEN "a@x" ELSE "b@x"]

NewUserRow(u) ==
  [ email                  |-> Emails[u],
    enhancements_used      |-> 0,
    enhancements_limit     |-> BASE_LIMIT,
    subscription_status    |-> "freemium",
    stripe_customer_id     |-> "null",
    stripe_subscription_id |-> "null",
    last_reset_date        |-> NULL ]

NoRow == [ none |-> TRUE ]

\* The tally of incrementUsage calls and results, kept where ghost.tally is
\* switched on.
NoTally == [ off |-> TRUE ]

Tallied(g, field) ==
  IF g.tally = NoTally THEN g ELSE [g EXCEPT !.tally[field] = @ + 1]

\* The record of how the webhook route left each event id ("processed",
\* "dropped", "error"), kept where ghost.notes is switched on.
NoNotes == [ off |-> TRUE ]

Noted(g, note, id) ==
  IF g.notes = NoNotes THEN g ELSE [g EXCEPT !.notes[note] = @ \cup {id}]

Idle == [ op |-> "idle" ]

\* The generation routes of routes/api.js.
GenOps == {"summarize", "quiz", "qa"}

\* The awaited calls of incrementUsage, in program order.
IncProgram ==
  <<"r1", "r2", "r3",
    "r1", "r2", "r3", "g1",
    "i1",
    "r1", "r2", "r3", "g1">>

\* The awaited calls of a generation route before it calls incrementUsage:
\* resetDailyUsageIfNeeded and the route's own SELECT (s1).
RoutePrologue == <<"r1", "r2", "r3", "s1">>

\* The awaited calls of each operation, in program order.  r1, r2, r3 are
\* the three queries of resetDailyUsageIfNeeded (r3 is skipped when no reset
\* is due), g1 is getUserUsage's SELECT, i1 is incrementUsage's UPDATE; in a
\* generation route, api is callOpenAI and s2 the SELECT of the response.
Program(op) ==
  CASE op = "reset"  -> <<"r1", "r2", "r3">>
    [] op = "get"    -> <<"r1", "r2", "r3", "g1">>
    [] op = "inc"    -> IncProgram
    [] op \in GenOps -> RoutePrologue \o IncProgram \o <<"api", "s2">>

\* Where incrementUsage's calls start in the program of op, less one.
IncStart(op) == IF op \in GenOps THEN Len(RoutePrologue) ELSE 0

At(p, label) ==
  /\ req[p].op \in {"reset", "get", "inc"} \cup GenOps
  /\ Program(req[p].op)[req[p].pc] = label

\* A finished request holds its result until the response is sent.
Done(r, result) ==
  [ op |-> "done", of |-> r.op, uid |-> r.uid, pre |-> r.pre, result |-> result ]

\* Continue request r of process p at program position pc, or finish it
\* with `result` when the program is over.
Goto(p, r, pc, result) ==
  IF pc > Len(Program(r.op))
    THEN req' = [req EXCEPT ![p] = Done(r, result)]
    ELSE req' = [req EXCEPT ![p] = [r EXCEPT !.pc = pc]]

\* The response of a generation route.  inc: what the route's incrementUsage
\* call returned ("none": not called); called: the request to the external
\* API was sent.
GenResult(r, status, error) ==
  [ kind |-> "gen", status |-> status, error |-> error,
    inc |-> r.inc, called |-> r.called, raised |-> r.raised, body |-> r.body ]

\* Mutant: a generation route goes on to generate when incrementUsage
\* reports a failure.
incrementFailed_generates(r, error) ==
  IF r.op \in GenOps
    THEN [r EXCEPT !.pc = IncStart(r.op) + Len(IncProgram) + 1]
    ELSE Done(r, [ kind |-> "inc", success |-> FALSE,
                   error |-> error, usage |-> NoRow ])

\* usage.js lines 126-129 and 147-150: incrementUsage returns {success:
\* false, error}.  A generation route answers 403 with the error (api.js
\* lines 619-624, 705-710, 836-841).
incrementFailed(r, error) ==
  IF r.op \in GenOps
    THEN Done(r, GenResult([r EXCEPT !.inc = "failed"], 403, error))
    ELSE Done(r, [ kind |-> "inc", success |-> FALSE,
                   error |-> error, usage |-> NoRow ])

\* usage.js lines 139-146: incrementUsage returns {success: true, usage}.
\* /summarize then rejects a transcript that cleans to under 10 characters
\* (api.js lines 626-630); otherwise a generation route goes on to
\* callOpenAI.
incrementSucceeded(r, usage) ==
  IF r.op \in GenOps
    THEN IF r.op = "summarize" /\ r.body = "short"
           THEN Done(r, GenResult([r EXCEPT !.inc = "ok"], 400,
                                  "Transcript is too short or empty"))
           ELSE [r EXCEPT !.pc = @ + 1, !.inc = "ok"]
    ELSE Done(r, [ kind |-> "inc", success |-> TRUE,
                   error |-> "", usage |-> usage ])

(***************************************************************************)
(* resetDailyUsageIfNeeded (config/usage.js).                              *)
(***************************************************************************)
\* Mutant: the date comparison lets today's date through.
needs_reset_inclusive(row) ==
  \/ row.last_reset_date = NULL
  \/ row.last_reset_date <= today

\* Mutant: only a row never reset needs one.
needs_reset_nullOnly(row) ==
  row.last_reset_date = NULL

\* The CASE expression of the first SELECT.
needs_reset(row) ==
  \/ row.last_reset_date = NULL
  \/ row.last_reset_date < today

\* Mutant: the guard compares with the premium limit.
enhancementsLimit_premium(row) == UNLIMITED_SENTINEL

\* `limitResult.rows[0]?.enhancements_limit || 10`
enhancementsLimit(row) ==
  IF row.enhancements_limit = 0 THEN FALLBACK_LIMIT ELSE row.enhancements_limit

isToday(snap) ==
  /\ snap.last_reset_date # NULL
  /\ snap.last_reset_date = today

\* Mutant: no corruption guard.
resetBranch_noGuard(snap, limit) ==
  IF snap.needs_reset THEN "daily" ELSE "none"

\* Which branch the function takes, from the row it read first (snap) and the
\* limit it read second.
resetBranch(snap, limit) ==
  IF isToday(snap) /\ snap.enhancements_used > limit THEN "corruption"
  ELSE IF snap.needs_reset THEN "daily"
  ELSE "none"

ResetResult(r) == [ kind |-> "reset", ret |-> r.ret, branch |-> r.branch ]

\* Mutant: a missing row is reported as an exhausted quota.
resetSelectUser_asLimitReached(p) ==
  /\ At(p, "r1")
  /\ LET r == req[p] IN
       IF r.uid \notin UserIds
         THEN req' = [req EXCEPT ![p] =
                Done(r, [ kind |-> "inc", success |-> FALSE,
                          error |-> "Daily enhancement limit reached",
                          usage |-> NoRow ])]
         ELSE req' = [req EXCEPT ![p] =
                [r EXCEPT !.pc = @ + 1,
                          !.snap = [ last_reset_date   |-> users[r.uid].last_reset_date,
                                     enhancements_used |-> users[r.uid].enhancements_used,
                                     needs_reset       |-> needs_reset(users[r.uid]) ]]]
  /\ UNCHANGED <<users, today, processedEvents, stripeCustomers, ghost>>

\* Line 16: SELECT last_reset_date, enhancements_used, needs_reset.
\* No row: throw 'User not found'; incrementUsage catches it, and so does a
\* generation route (500) when the call is the route's own.
resetSelectUser(p) ==
  /\ At(p, "r1")
  /\ LET r == req[p] IN
       IF r.uid \notin UserIds
         THEN req' = [req EXCEPT ![p] =
                IF r.op = "inc" \/ (r.op \in GenOps /\ r.pc > IncStart(r.op))
                  THEN incrementFailed(r, "User not found")
                ELSE IF r.op \in GenOps
                  THEN Done(r, GenResult(r, 500, "User not found"))
                ELSE Done(r, [ kind |-> "threw", error |-> "User not found" ])]
         ELSE req' = [req EXCEPT ![p] =
                [r EXCEPT !.pc = @ + 1,
                          !.snap = [ last_reset_date   |-> users[r.uid].last_reset_date,
                                     enhancements_used |-> users[r.uid].enhancements_used,
                                     needs_reset       |-> needs_reset(users[r.uid]) ]]]
  /\ UNCHANGED <<users, today, processedEvents, stripeCustomers, ghost>>

\* Line 36: SELECT enhancements_limit, then the choice of branch.
resetSelectLimit(p) ==
  /\ At(p, "r2")
  /\ LET r == req[p]
         b == resetBranch(r.snap, enhancementsLimit(users[r.uid]))
         r2 == [r EXCEPT !.branch = b, !.ret = (b # "none"), !.snap = NoRow]
     IN  IF b = "none"
           THEN Goto(p, r2, r.pc + 2, ResetResult(r2))
           ELSE Goto(p, r2, r.pc + 1, ResetResult(r2))
  /\ UNCHANGED <<users, today, processedEvents, stripeCustomers, ghost>>

\* Lines 55 and 63: UPDATE users SET enhancements_used = 0,
\* last_reset_date = CURRENT_DATE.
resetUpdate(p) ==
  /\ At(p, "r3")
  /\ LET r == req[p] IN
       /\ users' = [users EXCEPT ![r.uid].enhancements_used = 0,
                                 ![r.uid].last_reset_date = today]
       /\ Goto(p, r, r.pc + 1, ResetResult(r))
  /\ ghost' = Tallied(ghost, "resets")
  /\ UNCHANGED <<today, processedEvents, stripeCustomers>>

(***************************************************************************)
(* getUserUsage and incrementUsage (config/usage.js).                      *)
(***************************************************************************)
Usage(row) ==
  [ enhancementsUsed   |-> row.enhancements_used,
    enhancementsLimit  |-> row.enhancements_limit,
    subscriptionStatus |-> row.subscription_status ]

\* Line 88: getUserUsage's SELECT.  In incrementUsage the first one feeds the
\* limit check of line 125, the second one the success result.
getUserUsageSelect(p) ==
  /\ At(p, "g1")
  /\ LET r == req[p]
         usage == Usage(users[r.uid])
     IN  CASE r.op = "get" ->
                /\ req' = [req EXCEPT ![p] = Done(r, [ kind |-> "get", usage |-> usage ])]
                /\ UNCHANGED ghost
           [] r.op # "get" /\ r.pc < IncStart(r.op) + Len(IncProgram) ->
                IF usage.enhancementsUsed >= usage.enhancementsLimit
                  THEN /\ req' = [req EXCEPT ![p] =
                            incrementFailed(r, "Daily enhancement limit reached")]
                       /\ ghost' = Tallied(ghost, "limitReached")
                  ELSE /\ req' = [req EXCEPT ![p] = [r EXCEPT !.pc = @ + 1]]
                       /\ UNCHANGED ghost
           [] r.op # "get" /\ r.pc = IncStart(r.op) + Len(IncProgram) ->
                /\ req' = [req EXCEPT ![p] = incrementSucceeded(r, usage)]
                /\ ghost' = Tallied(ghost, "succeeded")
  /\ UNCHANGED <<users, today, processedEvents, stripeCustomers>>

\* Mutant: the UPDATE does not reach the row.
incrementUpdate_lost(p) ==
  /\ At(p, "i1")
  /\ req' = [req EXCEPT ![p] = [req[p] EXCEPT !.pc = @ + 1, !.raised = @ + 1]]
  /\ UNCHANGED <<users, today, processedEvents, stripeCustomers, ghost>>

\* Line 133: UPDATE users SET enhancements_used = enhancements_used + 1.
incrementUpdate(p) ==
  /\ At(p, "i1")
  /\ LET r == req[p] IN
       /\ users' = [users EXCEPT ![r.uid].enhancements_used = @ + 1]
       /\ req' = [req EXCEPT ![p] = [r EXCEPT !.pc = @ + 1, !.raised = @ + 1]]
  /\ UNCHANGED <<today, processedEvents, stripeCustomers, ghost>>

\* POST /api/user/increment-usage (routes/user.js): the status and the body
\* sent for a result of incrementUsage.
incrementUsageRoute(result) ==
  [ status |-> IF result.success THEN 200 ELSE 400, body |-> result ]

(***************************************************************************)
(* POST /api/summarize, /api/quiz and /api/qa (routes/api.js).             *)
(***************************************************************************)
\* What the request body carries: "missing": a required field is absent;
\* "short": all required fields, with a transcript that cleans to under 10
\* characters; "ok": all required fields and a longer transcript.
Bodies == {"missing", "short", "ok"}

\* Lines 590-596, 676-682, 803-813: the request arrives and its body is
\* validated.  `pre` is the user's row on arrival, kept for the properties
\* only.
generationArrive(p, op, uid, body, pre) ==
  /\ req[p] = Idle
  /\ LET r == [ op |-> op, pc |-> 1, uid |-> uid, snap |-> NoRow,
                ret |-> FALSE, branch |-> "none", pre |-> pre, raised |-> 0,
                body |-> body, inc |-> "none", called |-> FALSE ]
     IN  req' = [req EXCEPT ![p] =
                   IF body = "missing"
                     THEN Done(r, GenResult(r, 400, "Transcript is required"))
                     ELSE r]
  /\ UNCHANGED <<users, today, processedEvents, stripeCustomers, ghost>>

\* Lines 599-615, 685-701, 816-832: SELECT enhancements_used,
\* enhancements_limit and the route's own limit check.
generationSelectUsage(p) ==
  /\ At(p, "s1")
  /\ LET r == req[p] IN
       req' = [req EXCEPT ![p] =
         IF r.uid \notin UserIds
           THEN Done(r, GenResult(r, 404, "User not found"))
         ELSE IF users[r.uid].enhancements_used >= users[r.uid].enhancements_limit
           THEN Done(r, GenResult(r, 403, "Daily enhancement limit reached"))
         ELSE [r EXCEPT !.pc = @ + 1]]
  /\ UNCHANGED <<users, today, processedEvents, stripeCustomers, ghost>>

\* The outcomes of callOpenAI (lines 556-580): it throws before any request
\* is sent when no API key is configured, or the API answers with an error,
\* or with a completion.
ApiOutcomes == {"noKey", "error", "ok"}

\* Lines 644-647, 765-768, 876: callOpenAI.  What it throws reaches the
\* route's catch: 500.
callOpenAI(p, outcome) ==
  /\ At(p, "api")
  /\ LET r == req[p]
         sent == [r EXCEPT !.called = TRUE]
     IN  req' = [req EXCEPT ![p] =
           CASE outcome = "noKey" -> Done(r, GenResult(r, 500, "OpenAI API key not configured"))
             [] outcome = "error" -> Done(r, GenResult(sent, 500, "OpenAI API error"))
             [] outcome = "ok"    -> [sent EXCEPT !.pc = @ + 1]]
  /\ UNCHANGED <<users, today, processedEvents, stripeCustomers, ghost>>

\* Lines 650-663, 777-790, 879-892: the SELECT of the updated usage and the
\* response.
generationRespond(p) ==
  /\ At(p, "s2")
  /\ req' = [req EXCEPT ![p] = Done(req[p], GenResult(req[p], 200, ""))]
  /\ UNCHANGED <<users, today, processedEvents, stripeCustomers, ghost>>

GenerationStep(p) ==
  \/ generationSelectUsage(p)
  \/ \E outcome \in ApiOutcomes : callOpenAI(p, outcome)
  \/ generationRespond(p)

QuotaStep(p) ==
  \/ resetSelectUser(p)
  \/ resetSelectLimit(p)
  \/ resetUpdate(p)
  \/ getUserUsageSelect(p)
  \/ incrementUpdate(p)

(***************************************************************************)
(* Stripe webhook events.  An event id determines its payload             *)
(* (event.type and event.data.object): a redelivery carries the same one.  *)
(***************************************************************************)
Payload(t, s, c, sub) ==
  [ type |-> t, status |-> s, customer |-> c, subscription |-> sub ]

EventKinds ==
  << Payload("customer.subscription.created", "active",     "cus_1", "sub_1"),
     Payload("customer.subscription.created", "incomplete", "cus_1", "sub_1"),
     Payload("customer.subscription.updated", "active",     "cus_1", "sub_1"),
     Payload("customer.subscription.updated", "trialing",   "cus_1", "sub_2"),
     Payload("customer.subscription.updated", "canceled",   "cus_1", "sub_1"),
     Payload("customer.subscription.updated", "unpaid",     "cus_1", "sub_1"),
     Payload("customer.subscription.updated", "past_due",   "cus_1", "sub_1"),
     Payload("customer.subscription.updated", "incomplete", "cus_1", "sub_1"),
     Payload("customer.subscription.deleted", "canceled",   "cus_1", "sub_1"),
     Payload("invoice.payment_succeeded",     "paid",       "cus_1", "sub_1"),
     Payload("invoice.payment_succeeded",     "paid",       "cus_1", "null"),
     Payload("invoice.payment_failed",        "open",       "cus_1", "sub_1"),
     Payload("customer.created",              "",           "cus_1", "null"),
     Payload("customer.updated",              "",           "cus_1", "null"),
     Payload("charge.succeeded",              "",           "cus_1", "null"),
     Payload("customer.subscription.updated", "active",     "cus_2", "sub_2"),
     Payload("customer.subscription.updated", "active",     "cus_x", "sub_1"),
     Payload("customer.subscription.deleted", "canceled",   "cus_x", "sub_1"),
     Payload("customer.subscription.updated", "incomplete", "cus_1", "sub_1") >>

\* The event with id `id`: ids past the table repeat its payloads.
Event(id) == EventKinds[((id - 1) % Len(EventKinds)) + 1]

\* The ids whose marking ghost.recorded remembers.
TrackedIds == 1..Len(EventKinds)

\* The provider's customers at the start: cus_1 and cus_2 both carry user 1's
\* address (cus_1 in another case), cus_x carries none.
InitialCustomers ==
  [ c \in {"cus_1", "cus_2", "cus_x"} |->
      CASE c = "cus_1" -> "A@x"
        [] c = "cus_2" -> "a@x"
        [] c = "cus_x" -> "null" ]

\* String.prototype.toLowerCase on the addresses of the model.
toLowerCase(e) == IF e = "A@x" THEN "a@x" ELSE e

(***************************************************************************)
(* The processed-event ledger (routes/webhooks.js, lines 212, 241, 284).   *)
(***************************************************************************)
SeqHas(seq, x) == \E i \in 1..Len(seq) : seq[i] = x

\* Mutant: no id is ever found in the ledger.
has_never(id) == FALSE

\* processedEvents.has(event.id)
has(id) == SeqHas(processedEvents, id)

\* Mutant: the clean-up keeps the oldest entries.
sliceLast_oldest(seq, n) ==
  IF Len(seq) <= n THEN seq ELSE SubSeq(seq, 1, n)

\* eventsArray.slice(-n)
sliceLast(seq, n) ==
  IF Len(seq) <= n THEN seq ELSE SubSeq(seq, Len(seq) - n + 1, Len(seq))

\* Lines 284-291: processedEvents.add(event.id), then the clean-up.
markProcessed(seq, id) ==
  LET added == IF SeqHas(seq, id) THEN seq ELSE Append(seq, id)
  IN  IF Len(added) > LEDGER_CAPACITY THEN sliceLast(added, LEDGER_KEEP) ELSE added

(***************************************************************************)
(* The webhook handlers (routes/webhooks.js, config/stripe.js).            *)
(***************************************************************************)
\* Mutant: a trialing subscription is not treated as premium.
transition_activeOnly(e) ==
  CASE e.type = "customer.subscription.created" ->
         IF e.status = "active" THEN "premium" ELSE "none"
    [] e.type = "customer.subscription.updated" ->
         IF e.status = "active" THEN "premium"
         ELSE IF e.status \in {"canceled", "unpaid", "past_due"} THEN "freemium"
         ELSE "none"
    [] e.type = "customer.subscription.deleted" -> "freemium"
    [] e.type = "invoice.payment_succeeded" -> "premium"
    [] OTHER -> "none"

\* The UPDATE a handler issues for a resolved user: "premium", "freemium",
\* or "none" when the handler issues none.
transition(e) ==
  CASE e.type = "customer.subscription.created" ->
         IF e.status \in {"active", "trialing"} THEN "premium" ELSE "none"
    [] e.type = "customer.subscription.updated" ->
         IF e.status \in {"active", "trialing"} THEN "premium"
         ELSE IF e.status \in {"canceled", "unpaid", "past_due"} THEN "freemium"
         ELSE "none"
    [] e.type = "customer.subscription.deleted" -> "freemium"
    [] e.type = "invoice.payment_succeeded" -> "premium"
    [] OTHER -> "none"

\* Mutant: handlePaymentFailed looks the user up as well.
resolvesUser_paymentFailed(e) ==
  \/ e.type \in { "customer.subscription.created",
                  "customer.subscription.updated",
                  "customer.subscription.deleted",
                  "invoice.payment_failed" }
  \/ e.type = "invoice.payment_succeeded" /\ e.subscription # "null"

\* Whether the handler of the event looks the user up at all.
resolvesUser(e) ==
  \/ e.type \in { "customer.subscription.created",
                  "customer.subscription.updated",
                  "customer.subscription.deleted" }
  \/ e.type = "invoice.payment_succeeded" /\ e.subscription # "null"

\* Mutant: a subscription id already stored is kept.
premiumRow_keepsSubscription(row, sub) ==
  [row EXCEPT !.subscription_status = "premium",
              !.enhancements_limit = UNLIMITED_SENTINEL,
              !.stripe_subscription_id =
                 IF @ = "null" THEN sub ELSE @]

\* UPDATE users SET subscription_status = 'premium', enhancements_limit =
\* 999999, stripe_subscription_id = $2
premiumRow(row, sub) ==
  [row EXCEPT !.subscription_status = "premium",
              !.enhancements_limit = UNLIMITED_SENTINEL,
              !.stripe_subscription_id = sub]

\* Mutant: the downgrade also clears the usage counter.
freemiumRow_clearsUsage(row) ==
  [row EXCEPT !.subscription_status = "freemium",
              !.enhancements_limit = BASE_LIMIT,
              !.stripe_subscription_id = "null",
              !.enhancements_used = 0]

\* Mutant: the downgrade leaves the subscription id as it is.
freemiumRow_keepsSubscription(row) ==
  [row EXCEPT !.subscription_status = "freemium",
              !.enhancements_limit = BASE_LIMIT]

\* Mutant: the downgrade leaves the limit as it is.
freemiumRow_keepsLimit(row) ==
  [row EXCEPT !.subscription_status = "freemium",
              !.stripe_subscription_id = "null"]

\* UPDATE users SET subscription_status = 'freemium', enhancements_limit =
\* 10, stripe_subscription_id = NULL
freemiumRow(row) ==
  [row EXCEPT !.subscription_status = "freemium",
              !.enhancements_limit = BASE_LIMIT,
              !.stripe_subscription_id = "null"]

applyTransition(row, e) ==
  CASE transition(e) = "premium"  -> premiumRow(row, e.subscription)
    [] transition(e) = "freemium" -> freemiumRow(row)
    [] OTHER -> row

WebhookResult(status, note) ==
  [ kind |-> "webhook", status |-> status, received |-> (status = 200), note |-> note ]

WebhookDone(r, status, note) ==
  [ op |-> "done", of |-> "webhook", uid |-> r.uid, evt |-> r.evt,
    secret |-> r.secret, sigOk |-> r.sigOk, seen |-> r.seen, pre |-> r.pre,
    result |-> WebhookResult(status, note) ]

AtWebhook(p, label) == req[p].op = "webhook" /\ req[p].pc = label

\* The handler returned: the event is marked processed and acknowledged
\* (lines 283-293).
Acknowledge(p, r, note) ==
  /\ processedEvents' = markProcessed(processedEvents, r.evt)
  /\ req' = [req EXCEPT ![p] = WebhookDone(r, 200, note)]
  /\ ghost' = Noted([ghost EXCEPT !.recorded = @ \cup ({r.evt} \cap TrackedIds)],
                    note, r.evt)

\* Mutant: a handler's error is answered 500.
Caught_500(p, r) ==
  /\ req' = [req EXCEPT ![p] = WebhookDone(r, 500, "error")]
  /\ UNCHANGED <<processedEvents, ghost>>

\* Mutant: an event whose handler threw is marked processed as well.
Caught_marked(p, r) ==
  /\ processedEvents' = markProcessed(processedEvents, r.evt)
  /\ req' = [req EXCEPT ![p] = WebhookDone(r, 200, "error")]
  /\ ghost' = Noted(ghost, "error", r.evt)

\* The handler threw: acknowledged all the same, and not marked (line 294).
Caught(p, r) ==
  /\ req' = [req EXCEPT ![p] = WebhookDone(r, 200, "error")]
  /\ ghost' = Noted(ghost, "error", r.evt)
  /\ UNCHANGED processedEvents

\* The user is resolved: on to the entitlement UPDATE, if the handler has one.
Resolved(p, r, uid) ==
  IF transition(Event(r.evt)) = "none"
    THEN Acknowledge(p, [r EXCEPT !.uid = uid], "processed")
    ELSE /\ req' = [req EXCEPT ![p] = [r EXCEPT !.uid = uid, !.pc = "update"]]
         /\ UNCHANGED <<processedEvents, ghost>>

\* Lines 221-246 and the switch: the request arrives.  `secret` says whether
\* STRIPE_WEBHOOK_SECRET is set, `sigOk` whether constructEvent accepts the
\* signature.  `pre` is the state on arrival and `seen` whether the id was
\* marked processed before, both kept for the properties only.
webhookArrive(p, id, secret, sigOk, pre) ==
  /\ req[p] = Idle
  /\ LET r == [ op |-> "webhook", pc |-> "byCustomer", evt |-> id, uid |-> 0,
                email |-> "null", secret |-> secret, sigOk |-> sigOk,
                seen |-> (id \in ghost.recorded), pre |-> pre ]
     IN  IF ~secret THEN
           /\ req' = [req EXCEPT ![p] = WebhookDone(r, 500, "no secret")]
           /\ UNCHANGED <<processedEvents, ghost>>
         ELSE IF ~sigOk THEN
           /\ req' = [req EXCEPT ![p] = WebhookDone(r, 400, "bad signature")]
           /\ UNCHANGED <<processedEvents, ghost>>
         ELSE IF has(id) THEN
           /\ req' = [req EXCEPT ![p] = WebhookDone(r, 200, "duplicate")]
           /\ UNCHANGED <<processedEvents, ghost>>
         ELSE IF resolvesUser(Event(id)) THEN
           /\ req' = [req EXCEPT ![p] = r]
           /\ UNCHANGED <<processedEvents, ghost>>
         ELSE Acknowledge(p, r, "processed")
  /\ UNCHANGED <<users, today, stripeCustomers>>

\* SELECT id FROM users WHERE stripe_customer_id = $1 (lines 312, 362, 417,
\* 466).  `fail`: the store call throws.
selectByCustomer(p, fail) ==
  /\ AtWebhook(p, "byCustomer")
  /\ LET r == req[p]
         rows == { u \in UserIds : users[u].stripe_customer_id = Event(r.evt).customer }
     IN  IF fail THEN Caught(p, r)
         ELSE IF rows # {} THEN Resolved(p, r, CHOOSE u \in rows : \A v \in rows : u <= v)
         ELSE /\ req' = [req EXCEPT ![p] = [r EXCEPT !.pc = "email"]]
              /\ UNCHANGED <<processedEvents, ghost>>
  /\ UNCHANGED <<users, today, stripeCustomers>>

\* Mutant: a customer without an address is given user 1's.
getStripeCustomerEmail_someAddress(p, fail) ==
  /\ AtWebhook(p, "email")
  /\ LET r == req[p]
         c == Event(r.evt).customer
         email == IF fail \/ c \notin DOMAIN stripeCustomers \/ stripeCustomers[c] = "null"
                    THEN "a@x" ELSE stripeCustomers[c]
     IN  /\ req' = [req EXCEPT ![p] = [r EXCEPT !.pc = "byEmail", !.email = email]]
         /\ UNCHANGED <<processedEvents, ghost>>
  /\ UNCHANGED <<users, today, stripeCustomers>>

\* getStripeCustomerEmail (config/stripe.js): a failed retrieval gives no
\* address, and with no address the handler drops the event.
getStripeCustomerEmail(p, fail) ==
  /\ AtWebhook(p, "email")
  /\ LET r == req[p]
         c == Event(r.evt).customer
         email == IF fail \/ c \notin DOMAIN stripeCustomers
                    THEN "null" ELSE stripeCustomers[c]
     IN  IF email = "null"
           THEN Acknowledge(p, r, "dropped")
           ELSE /\ req' = [req EXCEPT ![p] = [r EXCEPT !.pc = "byEmail", !.email = email]]
                /\ UNCHANGED <<processedEvents, ghost>>
  /\ UNCHANGED <<users, today, stripeCustomers>>

\* linkStripeCustomerByEmail, its SELECT (config/stripe.js, line 32).  The
\* function catches a failing store call and reports linked: false.
linkSelectByEmail(p, fail) ==
  /\ AtWebhook(p, "byEmail")
  /\ LET r == req[p]
         rows == { u \in UserIds : users[u].email = toLowerCase(r.email) }
     IN  IF fail \/ rows = {} THEN Acknowledge(p, r, "dropped")
         ELSE LET u == CHOOSE v \in rows : TRUE IN
              IF users[u].stripe_customer_id = Event(r.evt).customer
                THEN /\ req' = [req EXCEPT ![p] = [r EXCEPT !.uid = u, !.pc = "byId"]]
                     /\ UNCHANGED <<processedEvents, ghost>>
                ELSE /\ req' = [req EXCEPT ![p] = [r EXCEPT !.uid = u, !.pc = "link"]]
                     /\ UNCHANGED <<processedEvents, ghost>>
  /\ UNCHANGED <<users, today, stripeCustomers>>

\* Mutant: the link is reported without being written.
linkUpdate_notWritten(p, fail) ==
  /\ AtWebhook(p, "link")
  /\ LET r == req[p] IN
       IF fail
         THEN /\ Acknowledge(p, [r EXCEPT !.uid = 0], "dropped")
              /\ UNCHANGED users
         ELSE /\ req' = [req EXCEPT ![p] = [r EXCEPT !.pc = "byId"]]
              /\ UNCHANGED <<users, processedEvents, ghost>>
  /\ UNCHANGED <<today, stripeCustomers>>

\* linkStripeCustomerByEmail, its UPDATE (config/stripe.js, line 62).
linkUpdate(p, fail) ==
  /\ AtWebhook(p, "link")
  /\ LET r == req[p] IN
       IF fail
         THEN /\ Acknowledge(p, [r EXCEPT !.uid = 0], "dropped")
              /\ UNCHANGED users
         ELSE /\ users' = [users EXCEPT ![r.uid].stripe_customer_id = Event(r.evt).customer]
              /\ req' = [req EXCEPT ![p] = [r EXCEPT !.pc = "byId"]]
              /\ ghost' = [ghost EXCEPT !.linked = @ \cup {Event(r.evt).customer}]
              /\ UNCHANGED processedEvents
  /\ UNCHANGED <<today, stripeCustomers>>

\* SELECT id FROM users WHERE id = $1, after a link (lines 324, 374, 429, 478).
selectById(p, fail) ==
  /\ AtWebhook(p, "byId")
  /\ LET r == req[p] IN
       IF fail THEN Caught(p, [r EXCEPT !.uid = 0]) ELSE Resolved(p, r, r.uid)
  /\ UNCHANGED <<users, today, stripeCustomers>>

\* The entitlement UPDATE (lines 344, 394, 400, 448, 491).
updateEntitlement(p, fail) ==
  /\ AtWebhook(p, "update")
  /\ LET r == req[p] IN
       IF fail
         THEN /\ Caught(p, r)
              /\ UNCHANGED users
         ELSE /\ users' = [users EXCEPT ![r.uid] = applyTransition(@, Event(r.evt))]
              /\ Acknowledge(p, r, "processed")
  /\ UNCHANGED <<today, stripeCustomers>>

WebhookStep(p, fail) ==
  \/ selectByCustomer(p, fail)
  \/ getStripeCustomerEmail(p, fail)
  \/ linkSelectByEmail(p, fail)
  \/ linkUpdate(p, fail)
  \/ selectById(p, fail)
  \/ updateEntitlement(p, fail)

(***************************************************************************)
(* POST /api/checkout/create-session (routes/checkout.js).  Every awaited  *)
(* call is one step; `fail` says that the call throws.                     *)
(***************************************************************************)
\* The ids the provider gives to customers created by the route.
NewCustomerIds == <<"cus_n1", "cus_n2", "cus_n3">>

NewCustomers == { NewCustomerIds[i] : i \in 1..Len(NewCustomerIds) }

CreatedCustomers == NewCustomers \cap DOMAIN stripeCustomers

\* stripe.customers.create: the provider's next customer id.
nextCustomerId ==
  NewCustomerIds[CHOOSE i \in 1..Len(NewCustomerIds) :
                   /\ NewCustomerIds[i] \notin DOMAIN stripeCustomers
                   /\ \A j \in 1..(i - 1) : NewCustomerIds[j] \in DOMAIN stripeCustomers]

AtCheckout(p, label) == req[p].op = "checkout" /\ req[p].pc = label

CheckoutDone(r, status) ==
  [ op |-> "done", of |-> "checkout", uid |-> r.uid, auth |-> r.auth,
    pre |-> r.pre, created |-> r.created, threw |-> r.threw,
    result |-> [ kind |-> "checkout", status |-> status,
                 customer |-> IF status = 200 THEN r.customer ELSE "null" ] ]

\* Lines 57-69: after the user lookup, retrieve the stored customer or go on
\* to create one.
afterLookup(p, r) ==
  req' = [req EXCEPT ![p] =
            [r EXCEPT !.pc = IF r.stripeCustomerId # "null" THEN "retrieve" ELSE "create"]]

\* Lines 23-40: the request arrives.  `configured`: STRIPE_PRICE_ID is set;
\* `auth`: the request carries a token that verifyToken accepts, for user
\* uid.  `pre` is the users table on arrival, kept for the properties only;
\* so are `created` and `threw` (a customer was created; a lookup threw).
createSessionArrive(p, configured, auth, uid, pre) ==
  /\ req[p] = Idle
  /\ LET r == [ op |-> "checkout", pc |-> "select", auth |-> auth,
                uid |-> IF auth THEN uid ELSE 0,
                userEmail |-> "null", stripeCustomerId |-> "null",
                customer |-> "null", created |-> FALSE, threw |-> FALSE,
                pre |-> pre ]
     IN  IF ~configured THEN req' = [req EXCEPT ![p] = CheckoutDone(r, 500)]
         ELSE IF auth THEN req' = [req EXCEPT ![p] = r]
         ELSE afterLookup(p, r)
  /\ UNCHANGED <<users, today, processedEvents, stripeCustomers, ghost>>

\* Lines 42-50: SELECT id, email, stripe_customer_id FROM users WHERE id =
\* $1, inside the try whose catch goes on "as guest" with userId still set.
createSessionSelectUser(p, fail) ==
  /\ AtCheckout(p, "select")
  /\ LET r == req[p] IN
       IF fail THEN afterLookup(p, [r EXCEPT !.threw = TRUE])
       ELSE IF r.uid \in UserIds
         THEN afterLookup(p, [r EXCEPT !.userEmail = users[r.uid].email,
                                       !.stripeCustomerId = users[r.uid].stripe_customer_id])
         ELSE afterLookup(p, r)
  /\ UNCHANGED <<users, today, processedEvents, stripeCustomers, ghost>>

\* Lines 60-66: stripe.customers.retrieve; any error is taken as "not found".
createSessionRetrieve(p, fail) ==
  /\ AtCheckout(p, "retrieve")
  /\ LET r == req[p] IN
       IF fail \/ r.stripeCustomerId \notin DOMAIN stripeCustomers
         THEN req' = [req EXCEPT ![p] =
                [r EXCEPT !.stripeCustomerId = "null", !.pc = "create",
                          !.threw = @ \/ r.stripeCustomerId \in DOMAIN stripeCustomers]]
         ELSE req' = [req EXCEPT ![p] =
                [r EXCEPT !.customer = r.stripeCustomerId, !.pc = "session"]]
  /\ UNCHANGED <<users, today, processedEvents, stripeCustomers, ghost>>

\* Line 76: stripe.customers.create.  An error reaches the outer catch: 500.
createSessionCreateCustomer(p, fail) ==
  /\ AtCheckout(p, "create")
  /\ LET r == req[p] IN
       IF fail
         THEN /\ req' = [req EXCEPT ![p] = CheckoutDone(r, 500)]
              /\ UNCHANGED stripeCustomers
         ELSE LET c == nextCustomerId IN
              /\ stripeCustomers' =
                   [ d \in DOMAIN stripeCustomers \cup {c} |->
                       IF d = c THEN r.userEmail ELSE stripeCustomers[d] ]
              /\ req' = [req EXCEPT ![p] =
                          [r EXCEPT !.customer = c, !.created = TRUE,
                                    !.pc = IF r.uid # 0 THEN "persist" ELSE "session"]]
  /\ UNCHANGED <<users, today, processedEvents, ghost>>

\* Lines 80-83: UPDATE users SET stripe_customer_id = $1 WHERE id = $2.
createSessionPersist(p, fail) ==
  /\ AtCheckout(p, "persist")
  /\ LET r == req[p] IN
       IF fail
         THEN /\ req' = [req EXCEPT ![p] = CheckoutDone(r, 500)]
              /\ UNCHANGED users
         ELSE /\ users' = [ u \in UserIds |->
                             IF u = r.uid
                               THEN [users[u] EXCEPT !.stripe_customer_id = r.customer]
                               ELSE users[u] ]
              /\ req' = [req EXCEPT ![p] = [r EXCEPT !.pc = "session"]]
  /\ UNCHANGED <<today, processedEvents, stripeCustomers, ghost>>

\* Lines 89-115: stripe.checkout.sessions.create for customer.id, and the
\* response.
createSessionCreateSession(p, fail) ==
  /\ AtCheckout(p, "session")
  /\ req' = [req EXCEPT ![p] = CheckoutDone(req[p], IF fail THEN 500 ELSE 200)]
  /\ UNCHANGED <<users, today, processedEvents, stripeCustomers, ghost>>

CheckoutStep(p, fail) ==
  \/ createSessionSelectUser(p, fail)
  \/ createSessionRetrieve(p, fail)
  \/ createSessionCreateCustomer(p, fail)
  \/ createSessionPersist(p, fail)
  \/ createSessionCreateSession(p, fail)

\* A customer id is left for every create-session request that may still
\* create a customer.
CanCheckout ==
  Cardinality(CreatedCustomers)
    + Cardinality({ p \in Procs : req[p].op = "checkout" /\ ~req[p].created })
    < Len(NewCustomerIds)

(***************************************************************************)
(* Requests arriving and responses leaving.                                *)
(***************************************************************************)
\* raised: how many times the request has run incrementUsage's UPDATE, kept
\* for the properties only.
QuotaRequest(op, uid, pre) ==
  [ op |-> op, pc |-> 1, uid |-> uid, snap |-> NoRow,
    ret |-> FALSE, branch |-> "none", pre |-> pre, raised |-> 0 ]

\* A quota operation is called for user uid.  `pre` is the row on arrival,
\* kept for the properties only.
StartQuota(p, op, uid, pre) ==
  /\ req[p] = Idle
  /\ req' = [req EXCEPT ![p] = QuotaRequest(op, uid, pre)]
  /\ ghost' = IF op = "inc" THEN Tallied(ghost, "incCalls") ELSE ghost
  /\ UNCHANGED <<users, today, processedEvents, stripeCustomers>>

\* The response is sent.
Respond(p) ==
  /\ req[p].op = "done"
  /\ req' = [req EXCEPT ![p] = Idle]
  /\ ghost' = [ghost EXCEPT !.lastReset =
                  IF req[p].result.kind = "reset" THEN req[p].uid ELSE 0]
  /\ UNCHANGED <<users, today, processedEvents, stripeCustomers>>

AllIdle == \A p \in Procs : req[p] = Idle

\* The UTC date changes.  Requests are short against a day: the date is taken
\* to change between requests.
Tick ==
  /\ AllIdle
  /\ today < MaxDay
  /\ today' = today + 1
  /\ ghost' = [ghost EXCEPT !.lastReset = 0]
  /\ UNCHANGED <<users, processedEvents, stripeCustomers, req>>

\* tally: see Tallied.  recorded: the tracked event ids ever marked processed.
\* lastReset: the user whose resetDailyUsageIfNeeded call was the last thing
\* to complete (0: something else was).  linked: the customers a link UPDATE
\* has been written for.
GhostInit ==
  [ tally |-> NoTally, recorded |-> {}, lastReset |-> 0, linked |-> {},
    notes |-> NoNotes ]

\* After registration: rows with the column defaults, an empty ledger.
Init ==
  /\ users = [u \in UserIds |-> NewUserRow(u)]
  /\ today = 1
  /\ processedEvents = << >>
  /\ stripeCustomers = InitialCustomers
  /\ req = [p \in Procs |-> Idle]
  /\ ghost = GhostInit

QuotaOps == {"reset", "get", "inc"}

RowOf(uid) == IF uid \in UserIds THEN users[uid] ELSE NoRow

Snapshot == [ users |-> users, processedEvents |-> processedEvents ]

\* The ledger of the bounded model holds at most MaxRecorded ids.
CanDeliver(id) == has(id) \/ Len(processedEvents) < MaxRecorded

(***************************************************************************)
(* Spec: the operations one request at a time.                             *)
(***************************************************************************)
SeqProc == "p1"

\* created(active), updated(active), updated(canceled), deleted for cus_1.
SeqEventIds == {1, 3, 5, 9}

Next ==
  \/ \E op \in QuotaOps, uid \in {1, MissingUserId} :
       /\ AllIdle
       /\ (op = "inc" /\ uid \in UserIds) => users[uid].enhancements_used < MaxUsed
       /\ StartQuota(SeqProc, op, uid, RowOf(uid))
  \/ \E id \in SeqEventIds, secret \in BOOLEAN, sigOk \in BOOLEAN :
       AllIdle /\ CanDeliver(id) /\ webhookArrive(SeqProc, id, secret, sigOk, Snapshot)
  \/ QuotaStep(SeqProc)
  \/ \E fail \in BOOLEAN : WebhookStep(SeqProc, fail)
  \/ Respond(SeqProc)
  \/ Tick

Spec == Init /\ [][Next]_vars

(***************************************************************************)
(* SpecQuotaRace: concurrent quota requests of user 1.                     *)
(***************************************************************************)
\* User 1 has not been reset yet, or was reset today with nothing used.
InitQuotaRace ==
  /\ \E d \in {NULL, 1} :
       users = [u \in UserIds |-> [NewUserRow(u) EXCEPT !.last_reset_date = d]]
  /\ today = 1
  /\ processedEvents = << >>
  /\ stripeCustomers = InitialCustomers
  /\ req = [p \in Procs |-> Idle]
  /\ ghost = [GhostInit EXCEPT !.tally =
                [ incCalls |-> 0, succeeded |-> 0, limitReached |-> 0, resets |-> 0 ]]

NextQuotaRace ==
  \/ \E p \in Procs, op \in QuotaOps :
       /\ op = "inc" => ghost.tally.incCalls < MaxIncCalls
       /\ StartQuota(p, op, 1, NoRow)
  \/ \E p \in Procs : QuotaStep(p)
  \/ \E p \in Procs : Respond(p)
  \/ Tick

SpecQuotaRace == InitQuotaRace /\ [][NextQuotaRace]_vars

(***************************************************************************)
(* SpecLedger: a long stream of webhook events, one request at a time.     *)
(* New events arrive with the ids 1, 2, 3, ... and events 1 and 9 may be   *)
(* delivered again at any time.                                            *)
(***************************************************************************)
MaxFresh == LEDGER_CAPACITY + 2

\* created(active) and deleted for cus_1.
RedeliveredIds == {1, 9}

\* The largest id delivered so far: every delivery of this specification is
\* marked, and the ledger always keeps its newest entries.
LastFresh ==
  IF processedEvents = <<>> THEN 0
  ELSE LET n == Len(processedEvents)
           k == CHOOSE k \in 0..(n - 1) :
                  \A i \in 1..n : processedEvents[i] <= processedEvents[n - k]
       IN  processedEvents[n - k]

NextLedger ==
  \/ /\ AllIdle
     /\ LastFresh < MaxFresh
     /\ webhookArrive(SeqProc, LastFresh + 1, TRUE, TRUE, Snapshot)
  \/ \E id \in RedeliveredIds :
       /\ AllIdle
       /\ id <= LastFresh
       /\ webhookArrive(SeqProc, id, TRUE, TRUE, Snapshot)
  \/ WebhookStep(SeqProc, FALSE)
  \/ Respond(SeqProc)

SpecLedger == Init /\ [][NextLedger]_vars

(***************************************************************************)
(* SpecConverge: distinct subscription and invoice events for customer     *)
(* cus_1, in any order, one request at a time; store calls may fail.       *)
(* Events 3 and 22 are updated(active), 4 is updated(trialing) with        *)
(* another subscription, 8 is updated(incomplete), 9 is deleted and 12 is  *)
(* payment_failed.                                                         *)
(***************************************************************************)
ConvergeIds == {3, 4, 8, 9, 12, 22}

NextConverge ==
  \/ \E id \in ConvergeIds :
       /\ AllIdle
       /\ webhookArrive(SeqProc, id, TRUE, TRUE, Snapshot)
  \/ \E fail \in BOOLEAN : WebhookStep(SeqProc, fail)
  \/ Respond(SeqProc)

SpecConverge == Init /\ [][NextConverge]_vars

(***************************************************************************)
(* SpecHandlers: every kind of event, in any order, one request at a time, *)
(* until the ledger holds MaxRecorded ids; store and provider calls may    *)
(* fail.                                                                   *)
(***************************************************************************)
HandlerIds == 1..Len(EventKinds)

\* The provider's customers: cus_2 carries user 1's address, or one that no
\* user has.
InitHandlers ==
  /\ users = [u \in UserIds |-> NewUserRow(u)]
  /\ today = 1
  /\ processedEvents = << >>
  /\ stripeCustomers \in { InitialCustomers,
                           [InitialCustomers EXCEPT !["cus_2"] = "c@x"] }
  /\ req = [p \in Procs |-> Idle]
  /\ ghost = GhostInit

NextHandlers ==
  \/ \E id \in HandlerIds :
       /\ AllIdle
       /\ CanDeliver(id)
       /\ webhookArrive(SeqProc, id, TRUE, TRUE, Snapshot)
  \/ \E fail \in BOOLEAN : WebhookStep(SeqProc, fail)
  \/ Respond(SeqProc)

SpecHandlers == InitHandlers /\ [][NextHandlers]_vars

(***************************************************************************)
(* SpecMixed: quota requests of user 1 in one process while webhooks for   *)
(* the user's customers are handled in the other.                          *)
(***************************************************************************)
QuotaProc == "p1"
WebhookProc == "p2"

\* updated(active) and deleted for cus_1, updated(active) for cus_2.
MixedEventIds == {3, 9, 16}

NextMixed ==
  \/ \E op \in QuotaOps :
       /\ op = "inc" => users[1].enhancements_used < MixedMaxUsed
       /\ StartQuota(QuotaProc, op, 1, NoRow)
  \/ \E id \in MixedEventIds :
       /\ CanDeliver(id)
       /\ webhookArrive(WebhookProc, id, TRUE, TRUE, NoRow)
  \/ QuotaStep(QuotaProc)
  \/ \E fail \in BOOLEAN : WebhookStep(WebhookProc, fail)
  \/ \E p \in Procs : Respond(p)
  \/ Tick

SpecMixed == Init /\ [][NextMixed]_vars

(***************************************************************************)
(* SpecGenerate: generation requests of user 1 in two processes.           *)
(***************************************************************************)
\* User 1 has not been reset yet, or was reset today and has one generation
\* left.
InitGenerate ==
  /\ \E row \in { NewUserRow(1),
                   [NewUserRow(1) EXCEPT !.enhancements_used = BASE_LIMIT - 1,
                                         !.last_reset_date = 1] } :
       users = [u \in UserIds |-> IF u = 1 THEN row ELSE NewUserRow(u)]
  /\ today = 1
  /\ processedEvents = << >>
  /\ stripeCustomers = InitialCustomers
  /\ req = [p \in Procs |-> Idle]
  /\ ghost = GhostInit

NextGenerate ==
  \/ \E p \in Procs, op \in GenOps, body \in Bodies :
       generationArrive(p, op, 1, body, NoRow)
  \/ \E p \in Procs : QuotaStep(p)
  \/ \E p \in Procs : GenerationStep(p)
  \/ \E p \in Procs : Respond(p)

SpecGenerate == InitGenerate /\ [][NextGenerate]_vars

(***************************************************************************)
(* SpecSummarize: generation requests one at a time, day after day.        *)
(***************************************************************************)
NextSummarize ==
  \/ \E op \in GenOps, uid \in {1, MissingUserId}, body \in Bodies :
       /\ AllIdle
       /\ generationArrive(SeqProc, op, uid, body, RowOf(uid))
  \/ QuotaStep(SeqProc)
  \/ GenerationStep(SeqProc)
  \/ Respond(SeqProc)
  \/ Tick

SpecSummarize == Init /\ [][NextSummarize]_vars

(***************************************************************************)
(* SpecDowngrade: a premium user who has used more than the base limit     *)
(* today is downgraded; quota operations and webhooks one at a time.  The  *)
(* user's row carries the customer id, so the handlers find it at once.    *)
(***************************************************************************)
\* updated(canceled) and deleted for cus_1.
DowngradeIds == {5, 9}

\* User 1 after customer.subscription.created(active) (event 1) and
\* BASE_LIMIT + 1 increments today.
InitDowngrade ==
  /\ users = [u \in UserIds |->
                IF u = 1
                  THEN [NewUserRow(u) EXCEPT
                          !.subscription_status = "premium",
                          !.enhancements_limit = UNLIMITED_SENTINEL,
                          !.stripe_customer_id = "cus_1",
                          !.stripe_subscription_id = "sub_1",
                          !.enhancements_used = BASE_LIMIT + 1,
                          !.last_reset_date = 1]
                  ELSE NewUserRow(u)]
  /\ today = 1
  /\ processedEvents = <<1>>
  /\ stripeCustomers = InitialCustomers
  /\ req = [p \in Procs |-> Idle]
  /\ ghost = [GhostInit EXCEPT
                !.tally = [ incCalls |-> 0, succeeded |-> 0,
                            limitReached |-> 0, resets |-> 0 ],
                !.recorded = {1}]

NextDowngrade ==
  \/ \E op \in QuotaOps :
       /\ AllIdle
       /\ op = "inc" => /\ users[1].enhancements_used < MaxUsed
                        /\ ghost.tally.incCalls < MaxIncCalls
       /\ StartQuota(SeqProc, op, 1, RowOf(1))
  \/ \E id \in DowngradeIds :
       AllIdle /\ webhookArrive(SeqProc, id, TRUE, TRUE, Snapshot)
  \/ QuotaStep(SeqProc)
  \/ \E fail \in BOOLEAN :
       selectByCustomer(SeqProc, fail) \/ updateEntitlement(SeqProc, fail)
  \/ Respond(SeqProc)

SpecDowngrade == InitDowngrade /\ [][NextDowngrade]_vars

(***************************************************************************)
(* SpecRedelivery: events for customer cus_1 delivered and delivered       *)
(* again, one request at a time; store and provider calls may fail.        *)
(***************************************************************************)
\* created(active), updated(active) and deleted for cus_1, and
\* customer.created, which has no handler.
RedeliveryIds == {1, 3, 9, 13}

InitRedelivery ==
  /\ users = [u \in UserIds |-> NewUserRow(u)]
  /\ today = 1
  /\ processedEvents = << >>
  /\ stripeCustomers = InitialCustomers
  /\ req = [p \in Procs |-> Idle]
  /\ ghost = [GhostInit EXCEPT
                !.notes = [ processed |-> {}, dropped |-> {}, error |-> {} ]]

NextRedelivery ==
  \/ \E id \in RedeliveryIds :
       AllIdle /\ webhookArrive(SeqProc, id, TRUE, TRUE, Snapshot)
  \/ \E fail \in BOOLEAN : WebhookStep(SeqProc, fail)
  \/ Respond(SeqProc)

SpecRedelivery == InitRedelivery /\ [][NextRedelivery]_vars

(***************************************************************************)
(* SpecWebhookRace: deliveries of events for cus_1 in two processes.       *)
(***************************************************************************)
\* updated(active) and deleted for cus_1.
RaceEventIds == {3, 9}

NextWebhookRace ==
  \/ \E p \in Procs, id \in RaceEventIds :
       webhookArrive(p, id, TRUE, TRUE, NoRow)
  \/ \E p \in Procs, fail \in BOOLEAN : WebhookStep(p, fail)
  \/ \E p \in Procs : Respond(p)

SpecWebhookRace == Init /\ [][NextWebhookRace]_vars

(***************************************************************************)
(* SpecCheckout: create-session requests one at a time; store and provider *)
(* calls may fail.                                                         *)
(***************************************************************************)
\* A stored customer id whose customer the provider no longer has.
StaleCustomerId == "cus_gone"

\* User 1 has no stored customer id, the id of a customer of the provider,
\* or a stale one.
InitCheckout ==
  /\ \E c \in {"null", "cus_1", StaleCustomerId} :
       users = [u \in UserIds |->
                  IF u = 1 THEN [NewUserRow(u) EXCEPT !.stripe_customer_id = c]
                  ELSE NewUserRow(u)]
  /\ today = 1
  /\ processedEvents = << >>
  /\ stripeCustomers = InitialCustomers
  /\ req = [p \in Procs |-> Idle]
  /\ ghost = GhostInit

NextCheckout ==
  \/ \E configured \in BOOLEAN, auth \in BOOLEAN, uid \in {1, MissingUserId} :
       /\ AllIdle
       /\ CanCheckout
       /\ createSessionArrive(SeqProc, configured, auth, uid, Snapshot)
  \/ \E fail \in BOOLEAN : CheckoutStep(SeqProc, fail)
  \/ Respond(SeqProc)

SpecCheckout == InitCheckout /\ [][NextCheckout]_vars

(***************************************************************************)
(* SpecCheckoutRace: create-session requests of user 1, who starts with no *)
(* stored customer id, in two processes; no call fails.                    *)
(***************************************************************************)
NextCheckoutRace ==
  \/ \E p \in Procs :
       /\ CanCheckout
       /\ createSessionArrive(p, TRUE, TRUE, 1, NoRow)
  \/ \E p \in Procs : CheckoutStep(p, FALSE)
  \/ \E p \in Procs : Respond(p)

SpecCheckoutRace == Init /\ [][NextCheckoutRace]_vars

(***************************************************************************)
(* Properties.                                                             *)
(***************************************************************************)
InFlight(p) == req[p].op \notin {"idle", "done"}

\* C1: for a user with usageLimit = L and usageCount = 0 on the current day,
\* interleaved incrementUsage calls never take the counter or the number of
\* successes past L, and once more than L calls have all returned exactly L
\* succeeded, the others reported the limit reached, and usageCount = L.
C1_AtomicIncrement ==
  LET row == users[1]
      t == ghost.tally
      L == row.enhancements_limit
  IN  (t.resets = 0 /\ row.last_reset_date = today) =>
        /\ row.enhancements_used <= L
        /\ t.succeeded <= L
        /\ (AllIdle /\ t.incCalls > L) =>
              /\ t.succeeded = L
              /\ t.limitReached = t.incCalls - L
              /\ row.enhancements_used = L

\* C10: on the first requests after a date rollover the daily reset takes
\* effect once: a reset write never zeroes a counter that was already reset
\* today and holds counted increments within the limit.
C10_ResetOncePerDay ==
  [][ \A p \in Procs :
        ( /\ resetUpdate(p)
          /\ today > 1
          /\ users[req[p].uid].last_reset_date = today
          /\ users[req[p].uid].enhancements_used > 0
          /\ users[req[p].uid].enhancements_used <= users[req[p].uid].enhancements_limit )
        => users'[req[p].uid].enhancements_used = users[req[p].uid].enhancements_used
    ]_vars

\* The request of the sequential specifications, once it has its result.
Finished(of) == req[SeqProc].op = "done" /\ req[SeqProc].of = of

\* C2: whenever lastResetDate is today, usageCount <= usageLimit.
C2_UsedWithinLimit ==
  \A u \in UserIds :
    users[u].last_reset_date = today =>
      users[u].enhancements_used <= users[u].enhancements_limit

\* C3: premium rows carry the unlimited sentinel as their limit, freemium
\* rows the base limit.
C3_StatusDecidesLimit ==
  \A u \in UserIds :
    /\ users[u].subscription_status \in {"premium", "freemium"}
    /\ users[u].subscription_status = "premium" =>
         users[u].enhancements_limit = UNLIMITED_SENTINEL
    /\ users[u].subscription_status = "freemium" =>
         users[u].enhancements_limit = BASE_LIMIT

\* A user upgraded by a webhook, and one downgraded again after using the
\* service as premium.
C3_Witness ==
  /\ users[1].subscription_status = "freemium"
  /\ users[1].enhancements_used > BASE_LIMIT
  /\ {3, 9} \subseteq ghost.recorded

\* C6: the webhook endpoint answers 500 exactly when the secret is not
\* configured and 400 exactly when the signature fails; then neither the
\* users table nor the ledger has changed.  Every other request is answered
\* 200 with received: true, a request whose handler threw included.
C6_WebhookStatus ==
  Finished("webhook") =>
    LET r == req[SeqProc] IN
      /\ r.result.status = 500 <=> ~r.secret
      /\ r.result.status = 400 <=> (r.secret /\ ~r.sigOk)
      /\ r.result.status \in {400, 500} =>
           /\ users = r.pre.users
           /\ processedEvents = r.pre.processedEvents
           /\ ~r.result.received
      /\ (r.secret /\ r.sigOk) => (r.result.status = 200 /\ r.result.received)

\* A handler threw and the request is answered 200.
C6_Witness ==
  /\ Finished("webhook")
  /\ req[SeqProc].result.note = "error"
  /\ req[SeqProc].result.status = 200

\* C7: resetDailyUsageIfNeeded returns true, leaving usageCount = 0 and
\* lastResetDate = today, exactly when lastResetDate was absent or earlier
\* than today, or was today with usageCount > usageLimit; otherwise it
\* returns false and leaves both fields as they were.
ResetDue(row) ==
  \/ row.last_reset_date = NULL
  \/ row.last_reset_date < today
  \/ row.last_reset_date = today /\ row.enhancements_used > row.enhancements_limit

C7_ResetIfNeeded ==
  (Finished("reset") /\ req[SeqProc].uid \in UserIds) =>
    LET r == req[SeqProc]
        row == users[r.uid]
    IN  /\ r.result.kind = "reset"
        /\ r.result.ret <=> ResetDue(r.pre)
        /\ r.result.ret =>
             row = [r.pre EXCEPT !.enhancements_used = 0, !.last_reset_date = today]
        /\ ~r.result.ret => row = r.pre

\* The corruption guard fired: reset today, more used than the limit.
C7_Witness ==
  /\ Finished("reset")
  /\ req[SeqProc].uid = 1
  /\ req[SeqProc].pre.last_reset_date = today
  /\ req[SeqProc].pre.enhancements_used > req[SeqProc].pre.enhancements_limit
  /\ req[SeqProc].result.ret
  /\ users[1].enhancements_used = 0

\* C8: a resetDailyUsageIfNeeded call that directly follows another one for
\* the same user on the same day returns false and changes nothing.
C8_ResetTwice ==
  (Finished("reset") /\ ghost.lastReset = req[SeqProc].uid) =>
    /\ req[SeqProc].result.kind = "reset"
    /\ ~req[SeqProc].result.ret
    /\ users[req[SeqProc].uid] = req[SeqProc].pre

\* The second of two calls has returned; the first one had reset the row.
C8_Witness ==
  /\ Finished("reset")
  /\ req[SeqProc].uid = 1
  /\ ghost.lastReset = 1
  /\ req[SeqProc].pre.last_reset_date = today
  /\ req[SeqProc].pre.enhancements_used = 0
  /\ users[1].enhancements_limit = BASE_LIMIT

\* C9: the first getUserUsage after a date rollover returns used = 0 and
\* the stored limit.
C9_UsageAfterRollover ==
  ( /\ Finished("get")
    /\ req[SeqProc].uid \in UserIds
    /\ req[SeqProc].pre.last_reset_date # NULL
    /\ req[SeqProc].pre.last_reset_date < today ) =>
    /\ req[SeqProc].result.kind = "get"
    /\ req[SeqProc].result.usage.enhancementsUsed = 0
    /\ req[SeqProc].result.usage.enhancementsLimit = req[SeqProc].pre.enhancements_limit

\* Usage of the day before, read after the rollover.
C9_Witness ==
  /\ Finished("get")
  /\ req[SeqProc].uid = 1
  /\ req[SeqProc].pre.last_reset_date # NULL
  /\ req[SeqProc].pre.last_reset_date < today
  /\ req[SeqProc].pre.enhancements_used > 0
  /\ req[SeqProc].result.usage.enhancementsUsed = 0

Entitlement(row) ==
  <<row.subscription_status, row.enhancements_limit, row.stripe_subscription_id>>

Target(e) ==
  IF transition(e) = "premium"
    THEN <<"premium", UNLIMITED_SENTINEL, e.subscription>>
    ELSE <<"freemium", BASE_LIMIT, "null">>

\* The delivery in SeqProc's response applied a transition to its user.
Applied ==
  /\ Finished("webhook")
  /\ req[SeqProc].result.note = "processed"
  /\ req[SeqProc].uid # 0
  /\ transition(Event(req[SeqProc].evt)) # "none"

\* C5: the entitlement state of a resolved user is decided by the payload of
\* the last event that applied a transition, whatever the state before it;
\* deliveries that apply none (no rule for the payload, no user resolved, a
\* failed store call) leave every user's entitlement state as it was.
C5_LastAppliedDecides ==
  Finished("webhook") =>
    IF Applied
      THEN /\ Entitlement(users[req[SeqProc].uid]) = Target(Event(req[SeqProc].evt))
           /\ \A u \in UserIds \ {req[SeqProc].uid} :
                 Entitlement(users[u]) = Entitlement(req[SeqProc].pre.users[u])
      ELSE \A u \in UserIds :
             Entitlement(users[u]) = Entitlement(req[SeqProc].pre.users[u])

\* updated(active) then deleted had left user 1 freemium, and updated(active)
\* delivered after the deletion makes the user premium.
C5_Witness ==
  /\ Applied
  /\ req[SeqProc].evt = 22
  /\ req[SeqProc].pre.processedEvents = <<3, 9>>
  /\ Entitlement(req[SeqProc].pre.users[1]) = <<"freemium", BASE_LIMIT, "null">>
  /\ Entitlement(users[1]) = <<"premium", UNLIMITED_SENTINEL, "sub_1">>

\* C11: an incrementUsage call that finds usageCount >= usageLimit fails
\* without changing usageCount, its result carries the usage snapshot (used
\* and limit), and the route answers 400 with success: false, the error and
\* that snapshot.
C11_LimitReachedCarriesUsage ==
  ( /\ Finished("inc")
    /\ req[SeqProc].uid \in UserIds
    /\ req[SeqProc].result.error = "Daily enhancement limit reached" ) =>
    LET r == req[SeqProc]
        resp == incrementUsageRoute(r.result)
    IN  /\ users[r.uid].enhancements_used = r.pre.enhancements_used
        /\ resp.status = 400
        /\ ~resp.body.success
        /\ resp.body.usage # NoRow
        /\ resp.body.usage = Usage(users[r.uid])

\* C12: a quota operation on a user id with no row fails at its first query
\* with 'User not found': resetDailyUsageIfNeeded and getUserUsage throw it,
\* incrementUsage returns it as its error and not the limit-reached error,
\* and the users table is left as it was.
C12_NotFound ==
  [][ ( /\ req[SeqProc].op \in QuotaOps
        /\ req[SeqProc].uid \notin UserIds ) =>
      ( /\ users' = users
        /\ req'[SeqProc].op = "done"
        /\ req'[SeqProc].result.error = "User not found"
        /\ req'[SeqProc].result.error # "Daily enhancement limit reached"
        /\ IF req[SeqProc].op = "inc"
             THEN /\ req'[SeqProc].result.kind = "inc"
                  /\ ~req'[SeqProc].result.success
             ELSE req'[SeqProc].result.kind = "threw" )
    ]_vars

\* incrementUsage for the missing user has returned its error.
C12_Witness ==
  /\ Finished("inc")
  /\ req[SeqProc].uid = MissingUserId
  /\ ~req[SeqProc].result.success
  /\ req[SeqProc].result.error = "User not found"
  /\ users = [u \in UserIds |-> NewUserRow(u)]

\* The users the handlers can resolve for an event, given the users table on
\* arrival: the rows with the event's customer id and, when there is none,
\* the rows with the address the provider holds for the customer.
ByCustomer(us, e) == { u \in UserIds : us[u].stripe_customer_id = e.customer }

ByEmail(us, e) ==
  { u \in UserIds : /\ stripeCustomers[e.customer] # "null"
                    /\ us[u].email = toLowerCase(stripeCustomers[e.customer]) }

Resolvable(us, e) ==
  IF ByCustomer(us, e) # {} THEN ByCustomer(us, e) ELSE ByEmail(us, e)

\* The step that ends SeqProc's webhook request, no call of it having failed
\* (a failing call ends the request at once).
CompletesUnfailed ==
  /\ req[SeqProc].op = "webhook"
  /\ WebhookStep(SeqProc, FALSE)
  /\ req'[SeqProc].op = "done"

IsUpgrade(e) ==
  /\ e.type \in {"customer.subscription.created", "customer.subscription.updated"}
  /\ e.status \in {"active", "trialing"}

\* C13: a subscription created or updated event with status active or
\* trialing, for a resolvable user and with no failing call, leaves that user
\* premium with limit 999999 and the event's subscription id, whatever the
\* user's entitlement state was.
C13_UpgradeApplied ==
  [][ LET r == req[SeqProc]
          e == Event(r.evt)
      IN  ( /\ CompletesUnfailed
            /\ IsUpgrade(e)
            /\ Resolvable(r.pre.users, e) # {} ) =>
          ( /\ req'[SeqProc].result.note = "processed"
            /\ req'[SeqProc].uid \in Resolvable(r.pre.users, e)
            /\ Entitlement(users'[req'[SeqProc].uid])
                 = <<"premium", UNLIMITED_SENTINEL, e.subscription>> )
    ]_vars

\* Event 4, updated(trialing) with sub_2, has made a user premium who was
\* premium with sub_1.
C13_Witness ==
  /\ Applied
  /\ req[SeqProc].evt = 4
  /\ Entitlement(req[SeqProc].pre.users[1]) = <<"premium", UNLIMITED_SENTINEL, "sub_1">>
  /\ Entitlement(users[1]) = <<"premium", UNLIMITED_SENTINEL, "sub_2">>

IsDowngrade(e) ==
  \/ /\ e.type = "customer.subscription.updated"
     /\ e.status \in {"canceled", "unpaid", "past_due"}
  \/ e.type = "customer.subscription.deleted"

IsPaymentSucceeded(e) == e.type = "invoice.payment_succeeded"

\* C15: an invoice payment succeeded event makes the resolved user premium
\* (limit 999999, the invoice's subscription id) when the invoice carries a
\* subscription id; with none the request ends on arrival, with no lookup, no
\* linking and no change to a user row; and applied to a user who is already
\* premium with that subscription id it changes no field of any user row.
C15_PaymentSucceeded ==
  [][ LET r == req[SeqProc]
          e == Event(r.evt)
          a == Event(req'[SeqProc].evt)
      IN  /\ ( /\ CompletesUnfailed
               /\ IsPaymentSucceeded(e)
               /\ Resolvable(r.pre.users, e) # {} ) =>
               ( /\ e.subscription # "null"
                 /\ req'[SeqProc].result.note = "processed"
                 /\ req'[SeqProc].uid \in Resolvable(r.pre.users, e)
                 /\ Entitlement(users'[req'[SeqProc].uid])
                      = <<"premium", UNLIMITED_SENTINEL, e.subscription>>
                 /\ Entitlement(r.pre.users[req'[SeqProc].uid])
                      = <<"premium", UNLIMITED_SENTINEL, e.subscription>>
                    => users' = r.pre.users )
          /\ ( /\ r = Idle
               /\ req'[SeqProc] # Idle
               /\ IsPaymentSucceeded(a)
               /\ a.subscription = "null" ) =>
               ( /\ req'[SeqProc].op = "done"
                 /\ req'[SeqProc].result.status = 200
                 /\ users' = users )
    ]_vars

\* C16: an invoice payment failed event ends on arrival and changes no field
\* of any user row; and a user's status goes from premium to freemium only in
\* a step of a subscription updated (canceled, unpaid, past_due) or
\* subscription deleted event.
C16_PaymentFailedNoChange ==
  [][ /\ ( /\ req[SeqProc] = Idle
           /\ req'[SeqProc] # Idle
           /\ Event(req'[SeqProc].evt).type = "invoice.payment_failed" ) =>
           ( /\ req'[SeqProc].op = "done"
             /\ req'[SeqProc].result.status = 200
             /\ users' = users )
      /\ \A u \in UserIds :
           ( /\ users[u].subscription_status = "premium"
             /\ users'[u].subscription_status = "freemium" ) =>
           ( /\ req[SeqProc].op = "webhook"
             /\ IsDowngrade(Event(req[SeqProc].evt)) )
    ]_vars

\* Event 12, payment_failed, was delivered for a premium user, who stays
\* premium.
C16_Witness ==
  /\ Finished("webhook")
  /\ req[SeqProc].evt = 12
  /\ req[SeqProc].result.note = "processed"
  /\ req[SeqProc].pre.users[1].subscription_status = "premium"
  /\ users = req[SeqProc].pre.users

\* C17: the address held by the provider is looked up only after the lookup
\* by customer id returned nothing and before anything is written; when it
\* matches a user, the customer id is on that user's row, and nothing else
\* has changed, by the time the handler reaches its entitlement UPDATE; and
\* the transition is applied to that same user.
C17_LinkBeforeTransition ==
  LET r == req[SeqProc]
      e == Event(r.evt)
  IN  /\ (r.op = "webhook" /\ r.pc \in {"email", "byEmail", "link"}) =>
           /\ ByCustomer(users, e) = {}
           /\ users = r.pre.users
      /\ ( /\ r.op = "webhook"
           /\ r.pc \in {"byId", "update"}
           /\ ByCustomer(r.pre.users, e) = {} ) =>
           /\ r.uid \in ByEmail(r.pre.users, e)
           /\ users = [r.pre.users EXCEPT ![r.uid].stripe_customer_id = e.customer]
      /\ (Applied /\ ByCustomer(r.pre.users, e) = {}) =>
           /\ r.uid \in ByEmail(r.pre.users, e)
           /\ users[r.uid].stripe_customer_id = e.customer
           /\ Entitlement(users[r.uid]) = Target(e)
           /\ \A u \in UserIds \ {r.uid} : users[u] = r.pre.users[u]

\* Event 1, created(active) for cus_1, found no row with cus_1, matched user 1
\* by the provider's address "A@x", linked the row and made the user premium.
C17_Witness ==
  /\ Applied
  /\ req[SeqProc].evt = 1
  /\ req[SeqProc].uid = 1
  /\ stripeCustomers["cus_1"] = "A@x"
  /\ req[SeqProc].pre.users[1].stripe_customer_id = "null"
  /\ users[1].stripe_customer_id = "cus_1"
  /\ users[1].subscription_status = "premium"

\* C18: once a link UPDATE has been written for a customer, every later event
\* for that customer finds the user by customer id, without asking the
\* provider for the address, and no customer id is written again.
C18_LinkedOnce ==
  [][ LET r == req[SeqProc] IN
        ( /\ r.op = "webhook"
          /\ Event(r.evt).customer \in ghost.linked ) =>
        ( /\ (r.pc = "byCustomer" /\ req'[SeqProc].op = "webhook")
               => req'[SeqProc].pc = "update"
          /\ \A u \in UserIds :
               users'[u].stripe_customer_id = users[u].stripe_customer_id )
    ]_vars

\* C19: an event whose customer resolves to no user (no row with the customer
\* id, and no address at the provider or no user with that address) changes
\* no field of any user row and is answered 200.
C19_UnresolvedDropped ==
  LET r == req[SeqProc]
      e == Event(r.evt)
  IN  ( /\ r.op \in {"webhook", "done"}
        /\ r.op = "done" => r.of = "webhook"
        /\ ~SeqHas(r.pre.processedEvents, r.evt)
        /\ resolvesUser(e)
        /\ Resolvable(r.pre.users, e) = {} ) =>
      ( /\ users = r.pre.users
        /\ r.uid = 0
        /\ r.op = "done" =>
             /\ r.result.status = 200
             /\ r.result.note \in {"dropped", "error"} )

\* Event 16 for cus_2, whose address no user has, was dropped while user 1 was
\* premium.
C19_Witness ==
  /\ Finished("webhook")
  /\ req[SeqProc].evt = 16
  /\ stripeCustomers["cus_2"] = "c@x"
  /\ req[SeqProc].result.note = "dropped"
  /\ req[SeqProc].result.status = 200
  /\ users[1].subscription_status = "premium"
  /\ users = req[SeqProc].pre.users

IsSuffix(a, b) ==
  /\ Len(a) <= Len(b)
  /\ a = SubSeq(b, Len(b) - Len(a) + 1, Len(b))

\* C20: the ledger never holds more than 1000 ids, and whenever a webhook
\* changes it, what it holds afterwards is the end of the former ledger with
\* the new id appended: the most recently recorded ids, in recording order,
\* the new one last.
C20_LedgerBounded ==
  [][ /\ Len(processedEvents') <= LEDGER_CAPACITY
      /\ processedEvents' # processedEvents =>
           /\ processedEvents' # << >>
           /\ processedEvents'[Len(processedEvents')] = req'[SeqProc].evt
           /\ IsSuffix(processedEvents', Append(processedEvents, req'[SeqProc].evt))
    ]_vars

\* The ledger right after its first clean-up: ids 502 to 1001.
C20_Witness ==
  /\ Finished("webhook")
  /\ Len(req[SeqProc].pre.processedEvents) = LEDGER_CAPACITY
  /\ Len(processedEvents) = LEDGER_KEEP
  /\ processedEvents[1] = LEDGER_CAPACITY - LEDGER_KEEP + 2
  /\ processedEvents[LEDGER_KEEP] = LEDGER_CAPACITY + 1

\* C21: a stored billingCustomerId is never overwritten with another
\* customer id: a row's stripe_customer_id changes only from absent to a
\* value.
C21_CustomerIdNotOverwritten ==
  [][ \A u \in UserIds :
        users[u].stripe_customer_id # "null" =>
          users'[u].stripe_customer_id = users[u].stripe_customer_id
    ]_vars

\* The columns the webhook path writes, and those the quota path writes.
BillingColumns(row) ==
  <<row.subscription_status, row.enhancements_limit,
    row.stripe_customer_id, row.stripe_subscription_id>>

UsageColumns(row) == <<row.enhancements_used, row.last_reset_date>>

\* C22: under any interleaving, a step of a quota operation changes no
\* subscriptionStatus, usageLimit, billingCustomerId or billingSubscriptionId,
\* and a step of a webhook handler or link changes no usageCount or
\* lastResetDate.
C22_DisjointColumns ==
  [][ \A p \in Procs : \A u \in UserIds :
        /\ (req[p].op \in QuotaOps /\ req'[p] # req[p]) =>
             BillingColumns(users'[u]) = BillingColumns(users[u])
        /\ ((req[p].op = "webhook" \/ req'[p].op = "webhook") /\ req'[p] # req[p]) =>
             UsageColumns(users'[u]) = UsageColumns(users[u])
    ]_vars

\* The user has been made premium by a webhook between two increments, and
\* the increment in flight is about to write while a downgrade is about to
\* write as well.
C22_Witness ==
  /\ At(QuotaProc, "i1")
  /\ AtWebhook(WebhookProc, "update")
  /\ Event(req[WebhookProc].evt).type = "customer.subscription.deleted"
  /\ users[1].subscription_status = "premium"
  /\ users[1].enhancements_used > 0

\* C23: a create-session request with a valid token for a user whose stored
\* customer id exists at the provider creates no customer, writes nothing
\* to the users table, and its session is for the stored customer.  When
\* the stored id does not exist at the provider, a session is only
\* created once a new customer has been created and its id stored on the
\* user's row.
C23_ReuseStoredCustomer ==
  LET r == req[SeqProc] IN
  /\ (Finished("checkout") /\ r.auth /\ r.uid \in UserIds) =>
       LET old == r.pre.users[r.uid].stripe_customer_id IN
       /\ (old # "null" /\ old \in DOMAIN stripeCustomers) =>
            /\ ~r.created
            /\ users = r.pre.users
            /\ r.result.status = 200 => r.result.customer = old
       /\ (old # "null" /\ old \notin DOMAIN stripeCustomers /\ r.result.status = 200) =>
            /\ r.created
            /\ users[r.uid].stripe_customer_id = r.result.customer
  /\ (AtCheckout(SeqProc, "session") /\ r.created /\ r.uid \in UserIds) =>
       users[r.uid].stripe_customer_id = r.customer

\* C30: create-session requests of an authenticated user with no stored
\* customer id, interleaved in any way, create at most one customer, and
\* once no request is in flight the stored id is the customer of every
\* session returned.
C30_OneCustomerPerUser ==
  /\ Cardinality(CreatedCustomers) <= 1
  /\ (\A q \in Procs : req[q].op # "checkout") =>
       \A p \in Procs :
         (req[p].op = "done" /\ req[p].of = "checkout" /\ req[p].result.status = 200) =>
           req[p].result.customer = users[1].stripe_customer_id

GenRequest(p) == req[p].op \in GenOps

GenFinished(p) == req[p].op = "done" /\ req[p].of \in GenOps

UsedAfterReset(row) ==
  LET snap == [ last_reset_date   |-> row.last_reset_date,
                enhancements_used |-> row.enhancements_used,
                needs_reset       |-> needs_reset(row) ]
  IN  IF resetBranch(snap, enhancementsLimit(row)) = "none"
        THEN row.enhancements_used
        ELSE 0

\* C29: a generation request that is rejected (answered 400, 403 or 404)
\* without a request to the external API having been sent has not raised
\* enhancements_used: the count is what the daily reset leaves of the count
\* on arrival.
C29_RejectedConsumesNothing ==
  LET r == req[SeqProc] IN
    (/\ GenFinished(SeqProc)
     /\ r.uid \in UserIds
     /\ r.result.status \in {400, 403, 404}
     /\ ~r.result.called) =>
      /\ r.result.raised = 0
      /\ users[r.uid].enhancements_used = UsedAfterReset(r.pre)

\* The incrementUsage calls in flight that have run their UPDATE.
PastUpdate ==
  { p \in Procs : req[p].op = "inc" /\ req[p].raised = 1 }

\* C25: as long as no reset has been applied since the start of the day,
\* enhancements_used is the number of incrementUsage calls that have
\* returned success plus the number of calls that have run their UPDATE
\* and are about to return; with no call in flight it is the number of
\* successes.
C25_IncrementsNotLost ==
  (today = 1 /\ ghost.tally.resets = 0) =>
    users[1].enhancements_used = ghost.tally.succeeded + Cardinality(PastUpdate)

\* Two calls have run their UPDATE while both were in flight, and more
\* than one call has succeeded before.
C25_Witness ==
  /\ today = 1
  /\ ghost.tally.resets = 0
  /\ PastUpdate = Procs
  /\ ghost.tally.succeeded >= 2

\* The row of a freemium user who has used more than the base limit today.
OverLimitAfterDowngrade(row) ==
  /\ row.subscription_status = "freemium"
  /\ row.enhancements_limit = BASE_LIMIT
  /\ row.enhancements_used > BASE_LIMIT
  /\ row.last_reset_date = today

\* C26: the first quota operation after a premium user with more than 10
\* used today has been downgraded takes the corruption-guard branch: it
\* leaves enhancements_used at 0 (getUserUsage) or at 1 with a success
\* (incrementUsage).  From then on the freemium user stays within the limit
\* and every incrementUsage call below the limit succeeds.
C26_DowngradeResetsUsage ==
  LET r == req[SeqProc] IN
  /\ (r.op = "done" /\ r.of \in QuotaOps /\ OverLimitAfterDowngrade(r.pre)) =>
       CASE r.of = "reset" -> r.result.branch = "corruption"
                              /\ users[1].enhancements_used = 0
         [] r.of = "get"   -> r.result.usage.enhancementsUsed = 0
                              /\ users[1].enhancements_used = 0
         [] r.of = "inc"   -> r.result.success
                              /\ r.result.usage.enhancementsUsed = 1
                              /\ users[1].enhancements_used = 1
  /\ (users[1].subscription_status = "freemium" /\ ghost.tally.resets >= 1) =>
       users[1].enhancements_used <= BASE_LIMIT
  /\ (Finished("inc") /\ r.pre.subscription_status = "freemium"
                       /\ r.pre.enhancements_used < BASE_LIMIT) =>
       (r.result.success /\ users[1].enhancements_used = r.pre.enhancements_used + 1)

\* The tenth successful increment after the corruption reset, on the day of
\* the downgrade.
C26_Witness ==
  /\ Finished("inc")
  /\ req[SeqProc].result.success
  /\ users[1].subscription_status = "freemium"
  /\ users[1].enhancements_used = BASE_LIMIT
  /\ ghost.tally.resets = 1
  /\ ghost.tally.succeeded >= BASE_LIMIT
  /\ today = 1

Ledger == { processedEvents[i] : i \in 1..Len(processedEvents) }

\* C27: the ledger holds exactly the ids whose handler has returned
\* (processed, dropped for want of a user, or of a type without a handler).
\* A delivery whose handler throws leaves the ledger as it was, and a
\* later delivery of that id is handled, not skipped.  A delivery of an id
\* in the ledger (a dropped one too) is skipped: it changes no user row.
C27_RecordedWhenReturned ==
  LET r == req[SeqProc] IN
  /\ Ledger = ghost.notes.processed \cup ghost.notes.dropped
  /\ Finished("webhook") =>
       IF SeqHas(r.pre.processedEvents, r.evt)
         THEN /\ r.result.note = "duplicate"
              /\ users = r.pre.users
              /\ processedEvents = r.pre.processedEvents
         ELSE /\ r.result.note \in {"processed", "dropped", "error"}
              /\ r.result.note = "error" => processedEvents = r.pre.processedEvents
              /\ r.result.note # "error" =>
                   processedEvents = Append(r.pre.processedEvents, r.evt)

\* Event 1 threw at its first delivery and was dropped at its second; the
\* user was linked and made premium by event 3; the third delivery of
\* event 1 is skipped after event 9 has made the user freemium.
C27_Witness ==
  /\ Finished("webhook")
  /\ req[SeqProc].evt = 1
  /\ req[SeqProc].result.note = "duplicate"
  /\ 1 \in ghost.notes.error
  /\ 1 \in ghost.notes.dropped
  /\ 1 \notin ghost.notes.processed
  /\ users[1].stripe_customer_id = "cus_1"
  /\ users[1].subscription_status = "freemium"
  /\ 13 \in Ledger

\* The request of process p has run the entitlement UPDATE of its event.
AppliedBy(p) ==
  /\ req[p].op = "done"
  /\ req[p].of = "webhook"
  /\ req[p].result.note = "processed"
  /\ transition(Event(req[p].evt)) # "none"

\* C28: of two deliveries of one event id in flight together, at most one
\* runs the entitlement UPDATE of the event.
C28_ConcurrentDuplicateOnce ==
  \A p, q \in Procs :
    (p # q /\ AppliedBy(p) /\ AppliedBy(q)) => req[p].evt # req[q].evt

====
